---- MODULE Spec2Model ----
(***************************************************************************)
(* Model of geospatial/geospatial.py: the Unit enumeration, Radius and     *)
(* EarthsRadius conversions, the haversine distance, the Node record and   *)
(* the InMemoryGeospatialRepository (search / upsert / get / contains /    *)
(* delete).                                                                *)
(*                                                                         *)
(* Numbers.  Python floats are modelled in fixed point: a length is an     *)
(* integer number of hundredths of its unit, an angle an integer number    *)
(* of 1e-4 radians.  Coordinates are taken from the six points where the   *)
(* coordinate axes meet the sphere, each with a single (lat, lon)          *)
(* representation; there sin^2 and cos take the values 0, 1/2 and 1 and    *)
(* are kept as integer halves.                                             *)
(*                                                                         *)
(* Identifiers.  Python's None (and every other falsy identifier) is the   *)
(* value None; identifiers are the positive integers 1..MaxId.             *)
(***************************************************************************)
EXTENDS Integers, FiniteSets, Sequences, TLC

VARIABLES
    nodes,      \* self.nodes: identifier -> Node
    aliased,    \* keys whose stored Node object a caller holds a reference to
    last,       \* the latest call: its arguments and what it returned
    pc,         \* concurrent callers: each thread's position in its call
    local       \* concurrent callers: each thread's arguments, locals, result

vars == <<nodes, aliased, last, pc, local>>

(* ------------------------------ bounds -------------------------------- *)

\* Identifiers a caller supplies are 1..MaxId; the repository holds at most
\* MaxId nodes.
MaxId == 3

(* ------------------------------- Unit --------------------------------- *)

KILOMETERS == "Unit.KILOMETERS"
METERS == "Unit.METERS"
MILES == "Unit.MILES"

Unit == {KILOMETERS, METERS, MILES}

\* Arguments a caller may pass where a Unit is expected: the three members,
\* None, a plain string that only spells a member's name, and another string.
UnitArgs == Unit \cup {"None", "METERS", "FEET"}

(* --------------------------- fixed point ------------------------------ *)

\* A whole number of units as a fixed-point value (hundredths).
Fixed(whole) == whole * 100

\* x / 1000 on hundredths.
Div1000(x) == x \div 1000

\* x / 1609.344 on hundredths: floor(x * 1000 / 1609344) without leaving
\* 32 bits.
Div1609_344(x) ==
    (x \div 1609344) * 1000 + ((x % 1609344) * 1000) \div 1609344

\* length * angle: hundredths times 1e-4 radians, floor(x * c / 10000)
\* without leaving 32 bits.
MulAngle(x, c) == (x \div 10000) * c + ((x % 10000) * c) \div 10000

(* ------------------------------ Radius -------------------------------- *)

Radius(meters) == [meters |-> meters]

to_meters(self) == self.meters

to_kilometers(self) == Div1000(self.meters)

to_miles(self) == Div1609_344(self.meters)

Return(v) == [ok |-> TRUE, value |-> v]

Raise(e) == [ok |-> FALSE, error |-> e]

convert_to_default(self, unit) ==
    IF unit = KILOMETERS THEN Return(to_kilometers(self))
    ELSE IF unit = MILES THEN Return(to_miles(self))
    ELSE Return(to_meters(self))

convert_to(self, unit) ==
    IF unit = KILOMETERS THEN Return(to_kilometers(self))
    ELSE IF unit = MILES THEN Return(to_miles(self))
    ELSE IF unit = METERS THEN Return(to_meters(self))
    ELSE Raise("ValueError")

(* --------------------------- EarthsRadius ----------------------------- *)

EarthsRadiusMeters == 6371000

RADIUS == Radius(Fixed(EarthsRadiusMeters))

EarthsRadius_convert_to(unit) == convert_to(RADIUS, unit)

(* ----------------------------- haversine ------------------------------ *)

\* The six axis points, (latitude, longitude) in degrees.
Coordinates ==
    {<<0, lon>> : lon \in {-90, 0, 90, 180}} \cup {<<90, 0>>, <<-90, 0>>}

\* math.cos(math.radians(d)) for d a multiple of 90 degrees.
Cos(d) ==
    LET m == d % 360
    IN  IF m = 0 THEN 1 ELSE IF m = 180 THEN -1 ELSE 0

\* pow(math.sin(math.radians(d) / 2.0), 2) in halves, d a multiple of 90:
\* sin^2(d/2) = (1 - cos d) / 2.
SinSqHalf(d) == 1 - Cos(d)

\* a of the haversine formula, in halves.
HaversineA_sum(coordinates, other) ==
    LET lat1 == coordinates[1]
        lon1 == coordinates[2]
        lat2 == other[1]
        lon2 == other[2]
    IN  SinSqHalf(lat2 + lat1) + Cos(lat1) * Cos(lat2) * SinSqHalf(lon2 + lon1)

HaversineA(coordinates, other) ==
    LET lat1 == coordinates[1]
        lon1 == coordinates[2]
        lat2 == other[1]
        lon2 == other[2]
    IN  SinSqHalf(lat2 - lat1) + Cos(lat1) * Cos(lat2) * SinSqHalf(lon2 - lon1)

\* c = 2.0 * atan2(sqrt(a), sqrt(1.0 - a)) in 1e-4 radians, a in halves:
\* a = 0 gives 0, a = 1/2 gives pi/2, a = 1 gives pi.
HaversineC(a) == IF a = 0 THEN 0 ELSE IF a = 1 THEN 15708 ELSE 31416

haversine(coordinates, other, unit) ==
    LET c == HaversineC(HaversineA(coordinates, other))
        r == EarthsRadius_convert_to(unit)
    IN  IF r.ok THEN Return(MulAngle(r.value, c)) ELSE r

(* ------------------------------- Node --------------------------------- *)

\* The value of an absent identifier (Node's default node_id); it stands for
\* every identifier Python treats as false.
None == 0

Ids == 1 .. MaxId

Values == {"me", "you"}

\* Where upserted nodes lie.
NodeCoordinates == {<<0, 0>>, <<90, 0>>}

Node(node_id, coordinates, value) ==
    [node_id |-> node_id, coordinates |-> coordinates, value |-> value]

\* What get returns for an identifier that is not stored.
NoneValue == [none |-> TRUE]

\* bool(x) of a Node or None: Node defines neither __bool__ nor __len__.
Bool(x) == x # NoneValue

(* -------------------- InMemoryGeospatialRepository -------------------- *)

\* self.nodes[key] = n
Put(ns, key, n) ==
    [k \in DOMAIN ns \cup {key} |-> IF k = key THEN n ELSE ns[k]]

\* self.nodes without key
Remove(ns, key) == [k \in DOMAIN ns \ {key} |-> ns[k]]

len(ns) == Cardinality(DOMAIN ns)

\* The identifier upsert settles on.
UpsertId(ns, node) ==
    IF node.node_id # None THEN node.node_id ELSE len(ns) + 1

UpsertStore_mint(ns, node_id, node) ==
    LET n == Node(node_id, node.coordinates, node.value)
    IN  [nodes |-> Put(ns, len(ns) + 1, n), ret |-> n]

UpsertStore_keep(ns, node_id, node) ==
    LET n == Node(node_id, node.coordinates, node.value)
    IN  [nodes |-> IF node_id \in DOMAIN ns THEN ns ELSE Put(ns, node_id, n),
         ret |-> n]

\* The new Node, stored under its node_id and returned.
UpsertStore(ns, node_id, node) ==
    LET n == Node(node_id, node.coordinates, node.value)
    IN  [nodes |-> Put(ns, n.node_id, n), ret |-> n]

upsert(ns, node) == UpsertStore(ns, UpsertId(ns, node), node)

get(ns, node_id) ==
    IF node_id \in DOMAIN ns THEN ns[node_id] ELSE NoneValue

contains(ns, node_id) == Bool(get(ns, node_id))

delete_keep(ns, node_id) ==
    IF node_id \in DOMAIN ns
    THEN [nodes |-> ns, ret |-> Bool(ns[node_id])]
    ELSE [nodes |-> ns, ret |-> FALSE]

\* pop returns the stored Node; KeyError gives False.
delete(ns, node_id) ==
    IF node_id \in DOMAIN ns
    THEN [nodes |-> Remove(ns, node_id), ret |-> Bool(ns[node_id])]
    ELSE [nodes |-> ns, ret |-> FALSE]

search_strict(ns, coordinates, radius) ==
    LET d(j) == haversine(coordinates, ns[j].coordinates, METERS)
    IN  IF \E j \in DOMAIN ns : ~d(j).ok
        THEN Raise("ValueError")
        ELSE Return({ns[k] : k \in
                {j \in DOMAIN ns : d(j).value < to_meters(radius)}})

search_kilometers(ns, coordinates, radius) ==
    LET d(j) == haversine(coordinates, ns[j].coordinates, KILOMETERS)
    IN  IF \E j \in DOMAIN ns : ~d(j).ok
        THEN Raise("ValueError")
        ELSE Return({ns[k] : k \in
                {j \in DOMAIN ns : d(j).value <= to_meters(radius)}})

\* The stored nodes that pass the filter (a set: the order is the dict's);
\* an error of haversine would leave the comprehension.
search(ns, coordinates, radius) ==
    LET d(j) == haversine(coordinates, ns[j].coordinates, METERS)
    IN  IF \E j \in DOMAIN ns : ~d(j).ok
        THEN Raise("ValueError")
        ELSE Return({ns[k] : k \in
                {j \in DOMAIN ns : d(j).value <= to_meters(radius)}})

(* ------------------------------ callers ------------------------------- *)

\* Radii of search calls, in whole meters: negative, zero, short, beyond a
\* quarter and beyond half of the circumference.
SearchRadii == {-100, 0, 500, 10100000, 20100000}

\* Centres of search calls: at distance 0, a quarter and half of the
\* circumference from the places where nodes lie.
SearchCentres == Coordinates

Threads == {"t1", "t2", "t3"}

Init ==
    /\ nodes = << >>
    /\ aliased = {}
    /\ last = [op |-> "init"]
    /\ pc = [t \in Threads |-> "ready"]
    /\ local = [t \in Threads |-> [op |-> "none"]]

\* repository.upsert(Node(node_id, coordinates, value)); the caller keeps the
\* returned Node, which is the object now stored.  The repository is kept to
\* MaxId nodes.
UpsertCall ==
    \E i \in Ids \cup {None}, xy \in NodeCoordinates, v \in Values :
        \E r \in {upsert(nodes, Node(i, xy, v))} :
            /\ len(r.nodes) <= MaxId
            /\ nodes' = r.nodes
            /\ aliased' = (aliased \cap DOMAIN r.nodes) \cup {r.ret.node_id}
            /\ last' = [op |-> "upsert", node |-> Node(i, xy, v), ret |-> r.ret]
            /\ UNCHANGED <<pc, local>>

DeleteCall ==
    \E i \in Ids :
        \E r \in {delete(nodes, i)} :
            /\ nodes' = r.nodes
            /\ aliased' = aliased \cap DOMAIN r.nodes
            /\ last' = [op |-> "delete", node_id |-> i, ret |-> r.ret]
            /\ UNCHANGED <<pc, local>>

GetCall ==
    \E i \in Ids :
        /\ last' = [op |-> "get", node_id |-> i, ret |-> get(nodes, i)]
        /\ aliased' = aliased \cup ({i} \cap DOMAIN nodes)
        /\ UNCHANGED <<nodes, pc, local>>

ContainsCall ==
    \E i \in Ids :
        /\ last' = [op |-> "contains", node_id |-> i, ret |-> contains(nodes, i)]
        /\ UNCHANGED <<nodes, aliased, pc, local>>

\* The caller keeps the returned nodes, which are the stored objects.
SearchCall ==
    \E xy \in SearchCentres, m \in SearchRadii :
        \E found \in {search(nodes, xy, Radius(Fixed(m)))} :
            /\ last' = [op |-> "search", coordinates |-> xy,
                        radius |-> Radius(Fixed(m)), ret |-> found]
            /\ aliased' = IF found.ok
                          THEN aliased \cup
                               {k \in DOMAIN nodes : nodes[k] \in found.value}
                          ELSE aliased
            /\ UNCHANGED <<nodes, pc, local>>

Next == UpsertCall \/ DeleteCall \/ GetCall \/ ContainsCall \/ SearchCall

Spec == Init /\ [][Next]_vars

(* ------------------- a caller changing a returned Node ---------------- *)

\* upsert, get and search hand out the stored Node objects themselves, so
\* an assignment to a field of a Node the caller holds is an assignment to
\* the stored Node.
MutateCoordinates ==
    \E k \in aliased, xy \in NodeCoordinates :
        /\ nodes' = [nodes EXCEPT ![k].coordinates = xy]
        /\ last' = [op |-> "mutate", key |-> k, field |-> "coordinates"]
        /\ UNCHANGED <<aliased, pc, local>>

MutateValue ==
    \E k \in aliased, v \in Values :
        /\ nodes' = [nodes EXCEPT ![k].value = v]
        /\ last' = [op |-> "mutate", key |-> k, field |-> "value"]
        /\ UNCHANGED <<aliased, pc, local>>

MutateNodeId ==
    \E k \in aliased :
        /\ nodes' = [nodes EXCEPT ![k].node_id = None]
        /\ last' = [op |-> "mutate", key |-> k, field |-> "node_id"]
        /\ UNCHANGED <<aliased, pc, local>>

NextAlias ==
    \/ UpsertCall \/ DeleteCall \/ GetCall \/ ContainsCall \/ SearchCall
    \/ MutateCoordinates \/ MutateValue \/ MutateNodeId

SpecAlias == Init /\ [][NextAlias]_vars

(* ------------------- the conversions and the distance ----------------- *)

\* Radius(m) for these whole numbers of meters.
RadiusMeters == {-100, 0, 500, 3959, EarthsRadiusMeters}

ConvertToCall ==
    \E m \in RadiusMeters, u \in UnitArgs :
        /\ last' = [op |-> "Radius.convert_to", radius |-> Radius(Fixed(m)),
                    unit |-> u, ret |-> convert_to(Radius(Fixed(m)), u)]
        /\ UNCHANGED <<nodes, aliased, pc, local>>

EarthsRadiusCall ==
    \E u \in UnitArgs :
        /\ last' = [op |-> "EarthsRadius.convert_to", unit |-> u,
                    ret |-> EarthsRadius_convert_to(u)]
        /\ UNCHANGED <<nodes, aliased, pc, local>>

HaversineCall ==
    \E a \in Coordinates, b \in Coordinates, u \in UnitArgs :
        /\ last' = [op |-> "haversine", coordinates |-> a, other |-> b,
                    unit |-> u, ret |-> haversine(a, b, u)]
        /\ UNCHANGED <<nodes, aliased, pc, local>>

NextPure == ConvertToCall \/ EarthsRadiusCall \/ HaversineCall

SpecPure == Init /\ [][NextPure]_vars

(* ------------------------- concurrent callers ------------------------- *)

\* Each thread makes one call.  upsert first settles the identifier (it
\* reads len(self.nodes)), and stores in a later step: another thread may
\* run in between.  dict.pop is one step.
ThreadUpsertBegin(t) ==
    \E i \in Ids \cup {None}, v \in Values :
        /\ pc[t] = "ready"
        /\ pc' = [pc EXCEPT ![t] = "store"]
        /\ local' = [local EXCEPT ![t] =
                [op |-> "upsert", node |-> Node(i, <<0, 0>>, v),
                 node_id |-> UpsertId(nodes, Node(i, <<0, 0>>, v))]]
        /\ UNCHANGED <<nodes, aliased, last>>

ThreadUpsertStore(t) ==
    /\ pc[t] = "store"
    /\ \E r \in {UpsertStore(nodes, local[t].node_id, local[t].node)} :
        /\ nodes' = r.nodes
        /\ local' = [local EXCEPT ![t] =
                [op |-> "upsert", node |-> local[t].node, ret |-> r.ret]]
    /\ pc' = [pc EXCEPT ![t] = "done"]
    /\ UNCHANGED <<aliased, last>>

ThreadDelete(t) ==
    \E i \in Ids :
        \E r \in {delete(nodes, i)} :
            /\ pc[t] = "ready"
            /\ nodes' = r.nodes
            /\ local' = [local EXCEPT ![t] =
                    [op |-> "delete", node_id |-> i, ret |-> r.ret]]
            /\ pc' = [pc EXCEPT ![t] = "done"]
            /\ UNCHANGED <<aliased, last>>

NextThreads ==
    \E t \in Threads :
        ThreadUpsertBegin(t) \/ ThreadUpsertStore(t) \/ ThreadDelete(t)

SpecThreads == Init /\ [][NextThreads]_vars

(* ============================== claims ================================ *)

\* The stored nodes.
Stored(ns) == {ns[k] : k \in DOMAIN ns}

\* Great-circle distance by the unit vectors of the two points (the
\* spherical law of cosines), independent of the haversine formula.
Sin(d) == Cos(d - 90)

UnitVector(xy) ==
    <<Cos(xy[1]) * Cos(xy[2]), Cos(xy[1]) * Sin(xy[2]), Sin(xy[1])>>

Dot(u, v) == u[1] * v[1] + u[2] * v[2] + u[3] * v[3]

\* arccos of the dot product, in 1e-4 radians.
CentralAngle(a, b) ==
    LET dot == Dot(UnitVector(a), UnitVector(b))
    IN  IF dot = 1 THEN 0 ELSE IF dot = 0 THEN 15708 ELSE 31416

GreatCircleMeters(a, b) ==
    MulAngle(Fixed(EarthsRadiusMeters), CentralAngle(a, b))

\* C1: an upsert of a node without identifier assigns an identifier under
\* which nothing is stored: the call adds exactly one entry, every entry
\* stored before is still stored unchanged, and the returned node carries
\* the new identifier.
C1_FreshIdentifier ==
    [][(last'.op = "upsert" /\ last'.node.node_id = None) =>
        /\ last'.ret.node_id # None
        /\ last'.ret.node_id \notin DOMAIN nodes
        /\ len(nodes') = len(nodes) + 1
        /\ \A k \in DOMAIN nodes : k \in DOMAIN nodes' /\ nodes'[k] = nodes[k]
        /\ get(nodes', last'.ret.node_id) = last'.ret]_vars

\* C2: a caller changing the coordinates, value or node_id of a node the
\* repository handed out, without calling upsert, changes the result of no
\* get, contains or search.
C2_ReturnedNodesAreCopies ==
    [][last'.op = "mutate" =>
        /\ \A i \in Ids :
            /\ get(nodes', i) = get(nodes, i)
            /\ contains(nodes', i) = contains(nodes, i)
        /\ \A xy \in Coordinates, m \in SearchRadii :
            search(nodes', xy, Radius(Fixed(m)))
                = search(nodes, xy, Radius(Fixed(m)))]_vars

C4_SearchIsExhaustiveScan ==
    last.op = "search" =>
        /\ last.ret = Return({n \in Stored(nodes) :
                GreatCircleMeters(last.coordinates, n.coordinates)
                    <= to_meters(last.radius)})
        /\ \A m \in SearchRadii :
            to_meters(last.radius) <= Fixed(m) =>
                /\ search(nodes, last.coordinates, Radius(Fixed(m))).ok
                /\ last.ret.value \subseteq
                    search(nodes, last.coordinates, Radius(Fixed(m))).value

C4_Witness ==
    /\ last.op = "search"
    /\ to_meters(last.radius) > 0
    /\ last.ret.ok
    /\ last.ret.value # {}
    /\ last.ret.value # Stored(nodes)
    /\ len(nodes) < MaxId
    /\ \E n \in Stored(nodes) : n.node_id = MaxId

C7_Delete ==
    [][last'.op = "delete" =>
        LET i == last'.node_id
        IN  /\ last'.ret \in BOOLEAN
            /\ last'.ret = (i \in DOMAIN nodes)
            /\ last'.ret =>
                /\ get(nodes', i) = NoneValue
                /\ ~contains(nodes', i)
                /\ DOMAIN nodes' = DOMAIN nodes \ {i}
                /\ \A k \in DOMAIN nodes \ {i} : nodes'[k] = nodes[k]
            /\ ~last'.ret => nodes' = nodes]_vars

C7_Witness ==
    /\ last.op = "delete"
    /\ last.ret = TRUE
    /\ last.node_id = 1
    /\ DOMAIN nodes = {2, 3}

\* C10: every stored node's node_id is the key it is stored under, so a node
\* returned by get(i) has node_id i, and the node upsert returned is what
\* get returns under its node_id.
C10_NodeIdIsKey ==
    /\ \A k \in DOMAIN nodes : nodes[k].node_id = k
    /\ (last.op = "get" /\ Bool(last.ret)) => last.ret.node_id = last.node_id
    /\ last.op = "upsert" => get(nodes, last.ret.node_id) = last.ret

C10_Witness ==
    /\ last.op = "upsert"
    /\ last.node.node_id = None
    /\ last.ret.node_id = 2
    /\ len(nodes) = 2

\* C5: concurrent upsert and delete calls are serialized: once every thread
\* has returned, the stored mapping and the returned values are those of
\* the calls made one after the other in some order.
Orders ==
    {o \in [1 .. Cardinality(Threads) -> Threads] :
        \A i, j \in DOMAIN o : o[i] = o[j] => i = j}

SerialCall(ns, call) ==
    IF call.op = "upsert" THEN upsert(ns, call.node)
    ELSE delete(ns, call.node_id)

RECURSIVE SerialRunMatches(_, _)
SerialRunMatches(order, ns) ==
    IF order = << >> THEN ns = nodes
    ELSE LET call == local[Head(order)]
             r == SerialCall(ns, call)
         IN  r.ret = call.ret /\ SerialRunMatches(Tail(order), r.nodes)

C5_Serializable ==
    (\A t \in Threads : pc[t] = "done") =>
        \E o \in Orders : SerialRunMatches(o, << >>)

\* C8: Radius.convert_to, EarthsRadius.convert_to and haversine raise
\* ValueError for every unit argument that is not a member of Unit, None
\* included, and return a value for each of the three members.
C8_InvalidUnitRaises ==
    last.op \in {"Radius.convert_to", "EarthsRadius.convert_to", "haversine"} =>
        /\ last.unit \notin Unit => last.ret = Raise("ValueError")
        /\ last.unit \in Unit => (last.ret.ok /\ last.ret.value \in Int)

C8_Witness ==
    /\ last.op = "haversine"
    /\ last.unit = "None"
    /\ ~last.ret.ok
    /\ last.coordinates # last.other

\* C9: haversine(A, A, unit) is exactly 0 for every coordinate pair A and
\* every unit.
C9_DistanceToSelfIsZero ==
    (last.op = "haversine" /\ last.coordinates = last.other
            /\ last.unit \in Unit) =>
        last.ret = Return(0)

C9_Witness ==
    /\ last.op = "haversine"
    /\ last.coordinates = <<90, 0>>
    /\ last.other = <<90, 0>>
    /\ last.unit = MILES
    /\ last.ret = Return(0)

====
